---- MODULE Spec2Model ----
(***************************************************************************)
(* Model of the drug dictionary service: the drug_dictionary and           *)
(* local_prices tables (backend/app/db/db.py), the query and mutation      *)
(* functions over them (backend/app/db/crud.py) and the request handlers   *)
(* of backend/app/routers/drug_dictionary.py, the store session a handler  *)
(* works in, and the admin sessions of backend/app/auth.py and main.py.    *)
(*                                                                         *)
(* Values.  A Python Optional is a tuple: None is <<>>, a present value v  *)
(* is <<v>>.  A str is a sequence of one-character strings, so that        *)
(* substring search, LIKE patterns and CSV text are computed character by  *)
(* character.  A float is a natural number n standing for n.0.  A date is  *)
(* an integer day number, a datetime an integer tick of the clock.         *)
(***************************************************************************)
EXTENDS Integers, Sequences, FiniteSets, TLC

VARIABLES drugs, prices, now, today, resp, session, active_sessions

vars == <<drugs, prices, now, today, resp, session, active_sessions>>

(***************************************************************************)
(* Bounds of the model.                                                    *)
(***************************************************************************)
MaxDrugs == 2
MaxPrices == 3
MaxTime == 2
MaxDay == 1
MaxLimit == 2
MaxId == 3

(***************************************************************************)
(* Optional values and Python truthiness.                                  *)
(***************************************************************************)
None == <<>>

Some(v) == <<v>>

Val(o) == o[1]

\* the columns of DrugDictionary other than id, created_at and updated_at
Fields ==
    {"generic_name", "brand_name", "alternative_names", "strength", "form", "category",
     "sub_category", "drug_type", "atc_code", "manufacturer", "country_of_origin",
     "schedule_type", "unii_code", "primary_use", "secondary_use", "common_dosage",
     "prescription_required", "route_of_administration", "pregnancy_warning",
     "alcohol_interaction", "common_side_effects", "contraindications", "avg_mrp",
     "storage_condition", "expiry_sensitivity", "fda_approval",
     "who_essential_medicine", "pack_size", "availability_status",
     "last_updated_online", "min_price", "max_price", "price_currency", "image_url",
     "description"}

BoolFields == {"prescription_required", "fda_approval", "who_essential_medicine"}

FloatFields == {"avg_mrp", "min_price", "max_price"}

StrFields == Fields \ (BoolFields \cup FloatFields)

\* Python's bool(v) for an Optional column value of field f
Truthy(f, o) ==
    IF o = None THEN FALSE
    ELSE IF f \in BoolFields THEN Val(o)
    ELSE IF f \in FloatFields THEN Val(o) # 0
    ELSE Len(Val(o)) > 0

Ethical == <<"e", "t", "h", "i", "c", "a", "l">>

Otc == <<"o", "t", "c">>

Inr == <<"I", "N", "R">>

\* Column(..., default=...) of DrugDictionary; None where the column has no default
ColumnDefault(f) ==
    CASE f = "drug_type" -> Some(Ethical)
      [] f = "prescription_required" -> Some(TRUE)
      [] f = "fda_approval" -> Some(FALSE)
      [] f = "who_essential_medicine" -> Some(FALSE)
      [] f = "price_currency" -> Some(Inr)
      [] OTHER -> None

\* the INSERT binding a None attribute as NULL instead of leaving the column out
InsertValueBindsNull(f, o) == o

\* the value the INSERT stores for column f when the object carries o: the unit
\* of work leaves a None attribute out of the INSERT, so the column default fires
InsertValue(f, o) == IF o = None THEN ColumnDefault(f) ELSE o

\* the SQLite DateTime type only binds datetime objects; the API schema hands
\* last_updated_online over as a str, which the flush rejects (StatementError)
BindFails(f, o) == f = "last_updated_online" /\ o # None

(***************************************************************************)
(* The store.  drugs maps each primary key present to its row.             *)
(***************************************************************************)
Ids == DOMAIN drugs

SetMax(S) == CHOOSE x \in S : \A y \in S : y <= x

\* SQLite INTEGER PRIMARY KEY: a row inserted without id gets max(rowid) + 1
NextRowId(table) == IF DOMAIN table = {} THEN 1 ELSE SetMax(DOMAIN table) + 1

\* DrugDictionary(**drug_data): keys left out of drug_data are None attributes
Attrs(drug_data) ==
    [f \in Fields |-> IF f \in DOMAIN drug_data THEN drug_data[f] ELSE None]

NewRow(attrs, t) ==
    [cols |-> [f \in Fields |-> InsertValue(f, attrs[f])],
     created_at |-> t, updated_at |-> t]

FlushFails(attrs) == \E f \in Fields : BindFails(f, attrs[f])

\* crud.get_drug_by_id: the row, or None
get_drug_by_id(table, drug_id) ==
    IF drug_id \in DOMAIN table THEN Some(table[drug_id]) ELSE None

(***************************************************************************)
(* HTTP statuses a handler ends with.  A handler whose try block has       *)
(* `except Exception as e: session.rollback(); raise HTTPException(500)`   *)
(* also catches the HTTPException its own try block raises.                *)
(***************************************************************************)
\* get_drug: try/finally only, the HTTPException reaches the caller as raised
RaisedInGetDrug(status) == status

\* update_drug: the except clause turns whatever the try block raised into 500
RaisedInUpdateDrug(status) == 500

\* delete_drug: the except clause turns whatever the try block raised into 500
RaisedInDeleteDrug(status) == 500

\* bulk_import_drugs: the except clause turns whatever the try block raised into 500
RaisedInBulkImport(status) == 500

(***************************************************************************)
(* Mutation layer.                                                         *)
(***************************************************************************)
\* crud.create_drug: the table after add + commit
create_drug(table, drug_data, t) ==
    (NextRowId(table) :> NewRow(Attrs(drug_data), t)) @@ table

\* crud.update_drug, the loop: setattr for every key whose value is not None
SetAttrs(cols, drug_data) ==
    [f \in Fields |->
        IF f \in DOMAIN drug_data /\ drug_data[f] # None THEN drug_data[f] ELSE cols[f]]

\* the attributes whose value differs from the loaded one: the columns of the UPDATE
Dirty(old, new) == {f \in Fields : new[f] # old[f]}

\* crud.update_drug, commit: an UPDATE is emitted only for a dirty row, and only
\* an emitted UPDATE fires updated_at's onupdate
update_drug(table, drug_id, drug_data, t) ==
    LET old == table[drug_id].cols
        new == SetAttrs(old, drug_data)
    IN  IF Dirty(old, new) = {} THEN table
        ELSE [table EXCEPT ![drug_id] =
                 [cols |-> new, created_at |-> @.created_at, updated_at |-> t]]

UpdateFlushFails(table, drug_id, drug_data) ==
    LET old == table[drug_id].cols
        new == SetAttrs(old, drug_data)
    IN  \E f \in Dirty(old, new) : BindFails(f, new[f])

\* a delete whose filter on the id is lost: every row goes
delete_drugNoFilter(table, drug_id) == <<>>

\* crud.delete_drug: the table after delete + commit
delete_drug(table, drug_id) ==
    [i \in DOMAIN table \ {drug_id} |-> table[i]]

(***************************************************************************)
(* Request handlers of routers/drug_dictionary.py.  resp is the response   *)
(* of the latest request together with the request itself, the time it was *)
(* served at and the table as the handler found it.                        *)
(***************************************************************************)
\* POST /api/drugs/
CreateDrug(d) ==
    /\ Cardinality(Ids) < MaxDrugs
    /\ NextRowId(drugs) <= MaxId
    /\ IF FlushFails(Attrs(d))
       THEN /\ drugs' = drugs
            /\ resp' = [op |-> "create", status |-> 500, req |-> d, at |-> now,
                        pre |-> drugs]
       ELSE /\ drugs' = create_drug(drugs, d, now)
            /\ resp' = [op |-> "create", status |-> 200, req |-> d, at |-> now,
                        pre |-> drugs, id |-> NextRowId(drugs)]
    /\ UNCHANGED <<session, active_sessions, prices, now, today>>

\* the status GET /api/drugs/{drug_id} answers with on table
GetDrugStatus(table, drug_id) ==
    IF get_drug_by_id(table, drug_id) = None THEN RaisedInGetDrug(404) ELSE 200

\* GET /api/drugs/{drug_id}
GetDrug(drug_id) ==
    /\ resp' = [op |-> "get", status |-> GetDrugStatus(drugs, drug_id), id |-> drug_id,
                at |-> now, pre |-> drugs, body |-> get_drug_by_id(drugs, drug_id)]
    /\ UNCHANGED <<session, active_sessions, drugs, prices, now, today>>

\* PUT /api/drugs/{drug_id}
UpdateDrug(drug_id, d) ==
    /\ IF drug_id \notin Ids
       THEN /\ drugs' = drugs
            /\ resp' = [op |-> "update", status |-> RaisedInUpdateDrug(404),
                        id |-> drug_id, req |-> d, at |-> now, pre |-> drugs]
       ELSE IF UpdateFlushFails(drugs, drug_id, d)
       THEN /\ drugs' = drugs
            /\ resp' = [op |-> "update", status |-> 500,
                        id |-> drug_id, req |-> d, at |-> now, pre |-> drugs]
       ELSE /\ drugs' = update_drug(drugs, drug_id, d, now)
            /\ resp' = [op |-> "update", status |-> 200,
                        id |-> drug_id, req |-> d, at |-> now, pre |-> drugs]
    /\ UNCHANGED <<session, active_sessions, prices, now, today>>

\* DELETE /api/drugs/{drug_id}
DeleteDrug(drug_id) ==
    /\ IF drug_id \notin Ids
       THEN /\ drugs' = drugs
            /\ resp' = [op |-> "delete", status |-> RaisedInDeleteDrug(404),
                        id |-> drug_id, at |-> now, pre |-> drugs]
       ELSE /\ drugs' = delete_drug(drugs, drug_id)
            /\ resp' = [op |-> "delete", status |-> 200,
                        id |-> drug_id, at |-> now, pre |-> drugs]
    /\ UNCHANGED <<session, active_sessions, prices, now, today>>

\* datetime.utcnow() advances
Tick ==
    /\ now < MaxTime
    /\ now' = now + 1
    /\ UNCHANGED <<session, active_sessions, drugs, prices, today, resp>>

(***************************************************************************)
(* Request inputs of the CRUD specification.                               *)
(***************************************************************************)
Pa == <<"P", "a">>

Usd == <<"U", "S", "D">>

\* no key at all; keys with a value next to an explicit null, falsy present values
\* and a defaulted column overridden; a last_updated_online string
CrudInputs ==
    { <<>>,
      ("generic_name" :> Some(Pa)) @@ ("drug_type" :> None)
          @@ ("brand_name" :> Some(<<>>)) @@ ("prescription_required" :> Some(FALSE))
          @@ ("avg_mrp" :> Some(0)) @@ ("price_currency" :> Some(Usd)),
      ("category" :> Some(<<"c">>)) @@ ("last_updated_online" :> Some(<<"2">>)) }

\* the ids requests ask for: every id in the store and one that is not
IdRange == Ids \cup {NextRowId(drugs)}

(***************************************************************************)
(* Claims about create, get, update and delete (checked under SpecCrud).   *)
(***************************************************************************)
\* the keys of a request that carry a non-null value
Supplied(d) == {f \in DOMAIN d : d[f] # None}

\* C1 (as claimed): updateDrug(id, fields) on an existing record overwrites exactly
\* the fields supplied with a non-null value and sets the updated-time to the time
\* of the request; every other field of the record, its id and created time, and
\* every other record, are unchanged.
C1_UpdateOverwritesSupplied ==
    (resp.op = "update" /\ resp.id \in DOMAIN resp.pre) =>
        /\ DOMAIN drugs = DOMAIN resp.pre
        /\ \A i \in DOMAIN drugs \ {resp.id} : drugs[i] = resp.pre[i]
        /\ \A f \in Supplied(resp.req) : drugs[resp.id].cols[f] = resp.req[f]
        /\ \A f \in Fields \ Supplied(resp.req) :
               drugs[resp.id].cols[f] = resp.pre[resp.id].cols[f]
        /\ drugs[resp.id].created_at = resp.pre[resp.id].created_at
        /\ drugs[resp.id].updated_at = resp.at

\* C2 (as claimed): get, update and delete of an id that is not in the store answer
\* with the not-found status 404, not the internal-failure status 500, and leave
\* the store unchanged.
C2_MissingIdIsNotFound ==
    (resp.op \in {"get", "update", "delete"} /\ resp.id \notin DOMAIN resp.pre) =>
        (resp.status = 404 /\ drugs = resp.pre)

UnsetReadsAs(f) ==
    IF f = "drug_type" THEN Some(<<"e", "t", "h", "i", "c", "a", "l">>)
    ELSE IF f = "prescription_required" THEN Some(TRUE)
    ELSE IF f = "price_currency" THEN Some(<<"I", "N", "R">>)
    ELSE IF f \in {"fda_approval", "who_essential_medicine"} THEN Some(FALSE)
    ELSE None

C4_DeleteThenGetNotFound ==
    (resp.op = "delete" /\ resp.status = 200) =>
        /\ get_drug_by_id(drugs, resp.id) = None
        /\ GetDrugStatus(drugs, resp.id) = 404
        /\ \A i \in DOMAIN resp.pre \ {resp.id} :
               i \in DOMAIN drugs /\ drugs[i] = resp.pre[i]

\* a delete of one of two stored records has been served
C4_Witness ==
    /\ resp.op = "delete" /\ resp.status = 200
    /\ Cardinality(DOMAIN resp.pre) = 2
    /\ Cardinality(DOMAIN drugs) = 1

(***************************************************************************)
(* Query layer: search.                                                    *)
(***************************************************************************)
\* SQL lower() on one character (ASCII letters of the model's alphabet)
LowerChar(c) ==
    CASE c = "P" -> "p"
      [] c = "A" -> "a"
      [] c = "B" -> "b"
      [] OTHER -> c

Lower(str) == [i \in 1 .. Len(str) |-> LowerChar(str[i])]

\* SQL LIKE: % matches any run of characters, _ any one character
RECURSIVE Like(_, _)
Like(str, pattern) ==
    IF pattern = <<>> THEN str = <<>>
    ELSE IF Head(pattern) = "%"
         THEN Like(str, Tail(pattern)) \/ (str # <<>> /\ Like(Tail(str), pattern))
    ELSE IF str = <<>> THEN FALSE
    ELSE IF Head(pattern) = "_" THEN Like(Tail(str), Tail(pattern))
    ELSE Head(str) = Head(pattern) /\ Like(Tail(str), Tail(pattern))

\* column.ilike(pattern): lower(column) LIKE lower(pattern); NULL is no match
ilike(column, pattern) ==
    column # None /\ Like(Lower(Val(column)), Lower(pattern))

\* the ids of S in ascending order: the order a table scan yields rows in
RECURSIVE InIdOrder(_)
InIdOrder(S) ==
    IF S = {} THEN <<>>
    ELSE LET m == CHOOSE x \in S : \A y \in S : x <= y
         IN  <<m>> \o InIdOrder(S \ {m})

\* .limit(n): the first n elements
Limit(seq, n) == SubSeq(seq, 1, IF n < Len(seq) THEN n ELSE Len(seq))

\* the filter of crud.search_drug_dictionary on one row
SearchFilter(cols, query) ==
    LET pattern == <<"%">> \o query \o <<"%">>
    IN  \/ ilike(cols["generic_name"], pattern)
        \/ ilike(cols["brand_name"], pattern)
        \/ ilike(cols["alternative_names"], pattern)

\* crud.search_drug_dictionary: the ids of the rows returned, in order
search_drug_dictionary(table, query, limit) ==
    Limit(InIdOrder({i \in DOMAIN table : SearchFilter(table[i].cols, query)}), limit)

\* GET /api/drugs/search?q=...&limit=...
SearchDrugs(q, limit) ==
    /\ resp' = [op |-> "search", status |-> 200, q |-> q, limit |-> limit,
                at |-> now, pre |-> drugs,
                body |-> search_drug_dictionary(drugs, q, limit)]
    /\ UNCHANGED <<session, active_sessions, drugs, prices, now, today>>

\* names in either case, a name holding a LIKE wildcard as a plain character, a
\* record without any name and one whose only text is in another column
SearchInputs ==
    { <<>>,
      ("generic_name" :> Some(Pa)),
      ("brand_name" :> Some(<<"p", "A", "b">>)) @@ ("generic_name" :> None),
      ("alternative_names" :> Some(<<"b", ",", "a", "_">>)),
      ("category" :> Some(<<"p", "a">>)) }

\* Query(..., min_length=1)
Queries == { <<"p", "a">>, <<"A">>, <<"b">>, <<"_">>, <<"%">> }

\* str contains sub as a substring
Contains(str, sub) ==
    \E i \in 0 .. Len(str) - Len(sub) : SubSeq(str, i + 1, i + Len(sub)) = sub

NameFields == {"generic_name", "brand_name", "alternative_names"}

\* the record holds q, compared without case, in one of its three name fields
NameContains(cols, q) ==
    \E f \in NameFields : cols[f] # None /\ Contains(Lower(Val(cols[f])), Lower(q))

Range(seq) == {seq[i] : i \in 1 .. Len(seq)}

\* C5 (as claimed): searchDrugs(query, limit) returns at most limit records, each
\* holding query as a case-insensitive substring of its generic name, brand name
\* or alternative names; when at most limit records hold it, all of them are
\* returned; a record with all three name fields absent is never returned.
C5_SearchReturnsSubstringMatches ==
    resp.op = "search" =>
        LET hits == {i \in DOMAIN resp.pre : NameContains(resp.pre[i].cols, resp.q)}
        IN  /\ Len(resp.body) <= resp.limit
            /\ \A i \in Range(resp.body) : i \in hits
            /\ Cardinality(hits) <= resp.limit => hits \subseteq Range(resp.body)
            /\ \A i \in Range(resp.body) :
                   \E f \in NameFields : resp.pre[i].cols[f] # None

(***************************************************************************)
(* CSV text as csv.DictWriter writes it and csv.DictReader reads it        *)
(* (the excel dialect: delimiter ",", quotechar '"', doubled quotes,       *)
(* lines ended by "\r\n").                                                 *)
(***************************************************************************)
ExportColumns ==
    <<"id", "generic_name", "brand_name", "alternative_names", "strength", "form",
      "category", "sub_category", "drug_type", "manufacturer", "country_of_origin",
      "schedule_type", "primary_use", "secondary_use", "common_dosage",
      "prescription_required", "pregnancy_warning", "alcohol_interaction",
      "common_side_effects", "avg_mrp", "storage_condition", "expiry_sensitivity">>

ColumnChars(name) ==
    CASE name = "id" ->
           <<"i", "d">>
      [] name = "generic_name" ->
           <<"g", "e", "n", "e", "r", "i", "c", "_", "n", "a", "m", "e">>
      [] name = "brand_name" ->
           <<"b", "r", "a", "n", "d", "_", "n", "a", "m", "e">>
      [] name = "alternative_names" ->
           <<"a", "l", "t", "e", "r", "n", "a", "t", "i", "v", "e", "_", "n", "a", "m",
             "e", "s">>
      [] name = "strength" ->
           <<"s", "t", "r", "e", "n", "g", "t", "h">>
      [] name = "form" ->
           <<"f", "o", "r", "m">>
      [] name = "category" ->
           <<"c", "a", "t", "e", "g", "o", "r", "y">>
      [] name = "sub_category" ->
           <<"s", "u", "b", "_", "c", "a", "t", "e", "g", "o", "r", "y">>
      [] name = "drug_type" ->
           <<"d", "r", "u", "g", "_", "t", "y", "p", "e">>
      [] name = "manufacturer" ->
           <<"m", "a", "n", "u", "f", "a", "c", "t", "u", "r", "e", "r">>
      [] name = "country_of_origin" ->
           <<"c", "o", "u", "n", "t", "r", "y", "_", "o", "f", "_", "o", "r", "i", "g",
             "i", "n">>
      [] name = "schedule_type" ->
           <<"s", "c", "h", "e", "d", "u", "l", "e", "_", "t", "y", "p", "e">>
      [] name = "primary_use" ->
           <<"p", "r", "i", "m", "a", "r", "y", "_", "u", "s", "e">>
      [] name = "secondary_use" ->
           <<"s", "e", "c", "o", "n", "d", "a", "r", "y", "_", "u", "s", "e">>
      [] name = "common_dosage" ->
           <<"c", "o", "m", "m", "o", "n", "_", "d", "o", "s", "a", "g", "e">>
      [] name = "prescription_required" ->
           <<"p", "r", "e", "s", "c", "r", "i", "p", "t", "i", "o", "n", "_", "r", "e",
             "q", "u", "i", "r", "e", "d">>
      [] name = "pregnancy_warning" ->
           <<"p", "r", "e", "g", "n", "a", "n", "c", "y", "_", "w", "a", "r", "n", "i",
             "n", "g">>
      [] name = "alcohol_interaction" ->
           <<"a", "l", "c", "o", "h", "o", "l", "_", "i", "n", "t", "e", "r", "a", "c",
             "t", "i", "o", "n">>
      [] name = "common_side_effects" ->
           <<"c", "o", "m", "m", "o", "n", "_", "s", "i", "d", "e", "_", "e", "f", "f",
             "e", "c", "t", "s">>
      [] name = "avg_mrp" ->
           <<"a", "v", "g", "_", "m", "r", "p">>
      [] name = "storage_condition" ->
           <<"s", "t", "o", "r", "a", "g", "e", "_", "c", "o", "n", "d", "i", "t", "i",
             "o", "n">>
      [] name = "expiry_sensitivity" ->
           <<"e", "x", "p", "i", "r", "y", "_", "s", "e", "n", "s", "i", "t", "i", "v",
             "i", "t", "y">>

Digit(n) == CASE n = 0 -> "0" [] n = 1 -> "1" [] n = 2 -> "2" [] n = 3 -> "3"
              [] n = 4 -> "4" [] n = 5 -> "5" [] n = 6 -> "6" [] n = 7 -> "7"
              [] n = 8 -> "8" [] n = 9 -> "9"

\* str(n) of an int
RECURSIVE IntStr(_)
IntStr(n) == IF n < 10 THEN <<Digit(n)>> ELSE IntStr(n \div 10) \o <<Digit(n % 10)>>

\* str(v) of a present column value of field f
ValueStr(f, v) ==
    IF f \in BoolFields THEN (IF v THEN <<"T", "r", "u", "e">> ELSE <<"F", "a", "l", "s", "e">>)
    ELSE IF f \in FloatFields THEN IntStr(v) \o <<".", "0">>
    ELSE v

\* the cell export_drugs_csv hands the writer for column f: `drug.f or ""`
ExportCell(f, o) == IF Truthy(f, o) THEN ValueStr(f, Val(o)) ELSE <<>>

NeedsQuotes(str) == \E i \in 1 .. Len(str) : str[i] \in {",", "\"", "\r", "\n"}

RECURSIVE DoubleQuotes(_)
DoubleQuotes(str) ==
    IF str = <<>> THEN <<>>
    ELSE (IF Head(str) = "\"" THEN <<"\"", "\"">> ELSE <<Head(str)>>)
             \o DoubleQuotes(Tail(str))

\* one field as the writer emits it
WriteField(str) ==
    IF NeedsQuotes(str) THEN <<"\"">> \o DoubleQuotes(str) \o <<"\"">> ELSE str

\* writer.writerow: the fields joined by the delimiter, then the line terminator
RECURSIVE JoinFields(_)
JoinFields(cells) ==
    IF Len(cells) = 0 THEN <<>>
    ELSE IF Len(cells) = 1 THEN WriteField(cells[1])
    ELSE WriteField(cells[1]) \o <<",">> \o JoinFields(Tail(cells))

WriteRow(cells) == JoinFields(cells) \o <<"\r", "\n">>

\* the reader's state machine on one character, or on the end-of-line mark EOL it
\* processes after the last character of every line; a record is complete when
\* the end-of-line mark leaves the reader at START_RECORD
ReaderStep(r, c) ==
    LET saved == [r EXCEPT !.row = Append(@, r.field), !.field = <<>>]
        afterNl == IF c = "EOL" THEN "START_RECORD" ELSE "EAT_CRNL"
        emit(q) == IF c = "EOL" /\ q.state = "START_RECORD"
                   THEN [q EXCEPT !.rows = Append(@, q.row), !.row = <<>>]
                   ELSE q
        startField ==
            IF c \in {"\n", "\r", "EOL"} THEN [saved EXCEPT !.state = afterNl]
            ELSE IF c = "\"" THEN [r EXCEPT !.state = "IN_QUOTED_FIELD"]
            ELSE IF c = "," THEN [saved EXCEPT !.state = "START_FIELD"]
            ELSE [r EXCEPT !.field = Append(@, c), !.state = "IN_FIELD"]
    IN  IF r.error THEN r
        ELSE emit(
          CASE r.state = "START_RECORD" ->
                 IF c = "EOL" THEN r
                 ELSE IF c \in {"\n", "\r"} THEN [r EXCEPT !.state = "EAT_CRNL"]
                 ELSE startField
            [] r.state = "START_FIELD" -> startField
            [] r.state = "IN_FIELD" ->
                 IF c \in {"\n", "\r", "EOL"} THEN [saved EXCEPT !.state = afterNl]
                 ELSE IF c = "," THEN [saved EXCEPT !.state = "START_FIELD"]
                 ELSE [r EXCEPT !.field = Append(@, c)]
            [] r.state = "IN_QUOTED_FIELD" ->
                 IF c = "EOL" THEN r
                 ELSE IF c = "\"" THEN [r EXCEPT !.state = "QUOTE_IN_QUOTED_FIELD"]
                 ELSE [r EXCEPT !.field = Append(@, c)]
            [] r.state = "QUOTE_IN_QUOTED_FIELD" ->
                 IF c = "\"" THEN [r EXCEPT !.field = Append(@, c),
                                            !.state = "IN_QUOTED_FIELD"]
                 ELSE IF c = "," THEN [saved EXCEPT !.state = "START_FIELD"]
                 ELSE IF c \in {"\n", "\r", "EOL"} THEN [saved EXCEPT !.state = afterNl]
                 ELSE [r EXCEPT !.field = Append(@, c), !.state = "IN_FIELD"]
            [] r.state = "EAT_CRNL" ->
                 IF c \in {"\n", "\r"} THEN r
                 ELSE IF c = "EOL" THEN [r EXCEPT !.state = "START_RECORD"]
                 ELSE [r EXCEPT !.error = TRUE])

\* the reader on character i of the text; the text is fed line by line, a line
\* ending after "\n" or with the text
ReaderFeed(r, text, i) ==
    LET r1 == ReaderStep(r, text[i])
    IN  IF text[i] = "\n" \/ i = Len(text) THEN ReaderStep(r1, "EOL") ELSE r1

\* the reader on characters lo .. hi of the text, in order
RECURSIVE ReaderRun(_, _, _, _)
ReaderRun(r, text, lo, hi) ==
    IF lo > hi THEN r
    ELSE IF lo = hi THEN ReaderFeed(r, text, lo)
    ELSE LET mid == (lo + hi) \div 2
             left == ReaderRun(r, text, lo, mid)
         IN  IF left.error THEN left ELSE ReaderRun(left, text, mid + 1, hi)

\* csv.reader over the whole text: the records, or an error; a text that ends
\* inside a quoted field yields the record read so far
ReadRecords(text) ==
    LET r == ReaderRun([state |-> "START_RECORD", field |-> <<>>, row |-> <<>>,
                        rows |-> <<>>, error |-> FALSE], text, 1, Len(text))
    IN  IF r.error THEN [error |-> TRUE, rows |-> <<>>]
        ELSE IF r.state = "START_RECORD" THEN [error |-> FALSE, rows |-> r.rows]
        ELSE [error |-> FALSE, rows |-> Append(r.rows, Append(r.row, r.field))]

\* csv.DictReader: the first record names the columns; an empty record is skipped;
\* row.get(name) is the cell under the last column of that name, None when the
\* record is too short or no column has the name
DictRows(records) ==
    LET NotEmpty(rec) == rec # <<>>
        kept == SelectSeq(records, NotEmpty)
    IN  IF kept = <<>> THEN <<>> ELSE Tail(kept)

FieldNames(records) ==
    LET NotEmpty(rec) == rec # <<>>
        kept == SelectSeq(records, NotEmpty)
    IN  IF kept = <<>> THEN <<>> ELSE Head(kept)

RowGet(fieldnames, rec, name) ==
    LET at == {i \in 1 .. Len(fieldnames) : fieldnames[i] = ColumnChars(name)}
    IN  IF at = {} \/ SetMax(at) > Len(rec) THEN None ELSE Some(rec[SetMax(at)])

(***************************************************************************)
(* Import/export service.                                                  *)
(***************************************************************************)
\* crud.get_all_drugs: .offset(skip).limit(limit) of the table scan
get_all_drugs(table, skip, limit) ==
    LET all == InIdOrder(DOMAIN table)
    IN  Limit(SubSeq(all, skip + 1, Len(all)), limit)

\* get_all_drugs(session, skip=0, limit=10000) in export_drugs_csv
ExportLimit == 10000

\* the dict export_drugs_csv writes for one drug, as the cells of its row
ExportRow(id, cols) ==
    [k \in 1 .. Len(ExportColumns) |->
        IF ExportColumns[k] = "id" THEN IntStr(id)
        ELSE ExportCell(ExportColumns[k], cols[ExportColumns[k]])]

RECURSIVE ExportRows(_, _)
ExportRows(table, ids) ==
    IF ids = <<>> THEN <<>>
    ELSE WriteRow(ExportRow(Head(ids), table[Head(ids)].cols))
             \o ExportRows(table, Tail(ids))

\* the text export_drugs_csv streams: writeheader, then a row per drug
ExportText(table) ==
    WriteRow([k \in 1 .. Len(ExportColumns) |-> ColumnChars(ExportColumns[k])])
        \o ExportRows(table, get_all_drugs(table, 0, ExportLimit))

\* GET /api/drugs/export/csv
ExportCsv ==
    /\ resp' = [op |-> "export", status |-> 200, at |-> now, pre |-> drugs,
                body |-> ExportText(drugs)]
    /\ UNCHANGED <<session, active_sessions, drugs, prices, now, today>>

\* the columns bulk_import_drugs reads from a CSV row
CsvImportColumns == {"generic_name", "brand_name", "alternative_names", "strength", "form"}

\* the cell taken as it is, without `or None`
CsvCellAsRead(fieldnames, rec, name) ==
    LET v == RowGet(fieldnames, rec, name)
    IN  IF v # None THEN v ELSE Some(<<>>)

\* `row.get(name) or None`
CsvCell(fieldnames, rec, name) ==
    LET v == RowGet(fieldnames, rec, name)
    IN  IF v # None /\ Val(v) # <<>> THEN v ELSE None

\* the drugs_data bulk_import_drugs builds from the rows of the DictReader
CsvDrugsData(records) ==
    LET names == FieldNames(records)
        rows == DictRows(records)
    IN  [k \in 1 .. Len(rows) |->
            [f \in CsvImportColumns |-> CsvCell(names, rows[k], f)]]

EndsWith(str, suffix) ==
    Len(str) >= Len(suffix)
        /\ SubSeq(str, Len(str) - Len(suffix) + 1, Len(str)) = suffix

\* DrugDictionary(**drug_data) raises TypeError for a key that is no attribute
ConstructorFails(drug_data) == \E k \in DOMAIN drug_data : k \notin Fields \cup {"id"}

\* the flush of the pending objects, one INSERT after the other inside the
\* transaction: the table as the transaction sees it, and whether every INSERT
\* was accepted (a bind error or a primary key already present stops the flush)
RECURSIVE FlushInserts(_, _, _)
FlushInserts(table, drugs_data, t) ==
    IF drugs_data = <<>> THEN [ok |-> TRUE, table |-> table]
    ELSE LET d == Head(drugs_data)
             given == "id" \in DOMAIN d /\ d["id"] # None
             id == IF given THEN Val(d["id"]) ELSE NextRowId(table)
         IN  IF FlushFails(Attrs(d)) \/ id \in DOMAIN table
             THEN [ok |-> FALSE, table |-> table]
             ELSE FlushInserts((id :> NewRow(Attrs(d), t)) @@ table, Tail(drugs_data), t)

\* crud.bulk_create_drugs: construct and add every object, then commit
bulk_create_drugs(table, drugs_data, t) ==
    IF \E k \in 1 .. Len(drugs_data) : ConstructorFails(drugs_data[k])
    THEN [ok |-> FALSE, table |-> table]
    ELSE FlushInserts(table, drugs_data, t)

\* a handler that leaves the failed transaction's INSERTs in place
RollbackKeepsInserts(committed, inTransaction) == inTransaction

\* session.rollback(): the table is as it was at the last commit
Rollback(committed, inTransaction) == committed

IsCsvName(filename) == EndsWith(filename, <<".", "c", "s", "v">>)

IsJsonName(filename) == EndsWith(filename, <<".", "j", "s", "o", "n">>)

\* the try block of bulk_import_drugs: what it raises (0 when nothing) and the
\* table the transaction ends with.  The contents of a .json file are given as
\* the value json.loads returns, or as malformed.
BulkImportTry(table, file, t) ==
    IF IsCsvName(file.filename)
    THEN LET read == ReadRecords(file.contents)
         IN  IF read.error THEN [raised |-> 500, table |-> table, n |-> 0]
             ELSE LET out == bulk_create_drugs(table, CsvDrugsData(read.rows), t)
                  IN  [raised |-> IF out.ok THEN 0 ELSE 500, table |-> out.table,
                       n |-> Len(CsvDrugsData(read.rows))]
    ELSE IF IsJsonName(file.filename)
    THEN IF file.contents.malformed THEN [raised |-> 500, table |-> table, n |-> 0]
         ELSE LET out == bulk_create_drugs(table, file.contents.list, t)
              IN  [raised |-> IF out.ok THEN 0 ELSE 500, table |-> out.table,
                   n |-> Len(file.contents.list)]
    ELSE [raised |-> 400, table |-> table, n |-> 0]

\* POST /api/drugs/bulk-import
BulkImport(file) ==
    /\ Cardinality(Ids) <= MaxDrugs
    /\ NextRowId(drugs) <= MaxId
    /\ LET try == BulkImportTry(drugs, file, now)
       IN  IF try.raised = 0
           THEN /\ drugs' = try.table
                /\ resp' = [op |-> "bulk", status |-> 200, file |-> file, at |-> now,
                            pre |-> drugs, imported |-> try.n]
           ELSE /\ drugs' = Rollback(drugs, try.table)
                /\ resp' = [op |-> "bulk", status |-> RaisedInBulkImport(try.raised),
                            file |-> file, at |-> now, pre |-> drugs]
    /\ UNCHANGED <<session, active_sessions, prices, now, today>>

(***************************************************************************)
(* Request inputs of the import/export specification.  A file carries,     *)
(* besides its name and contents, the number of rows its author put in it  *)
(* and, when it is an export, the table it was exported from.              *)
(***************************************************************************)
\* cells that need quoting, columns the import does not read, an empty string,
\* falsy values and an empty record
ImportInputs ==
    { <<>>,
      ("generic_name" :> Some(Pa)) @@ ("form" :> Some(<<"a", ",", "\"">>))
          @@ ("category" :> Some(<<"c">>)) @@ ("avg_mrp" :> Some(7))
          @@ ("drug_type" :> Some(Otc)),
      ("brand_name" :> Some(<<>>)) @@ ("alternative_names" :> Some(<<"a", "\n", "b">>))
          @@ ("prescription_required" :> Some(FALSE)) }

CsvName == <<"d", ".", "c", "s", "v">>

JsonName == <<"d", ".", "j", "s", "o", "n">>

\* brand_name,form / Pa, / ,x
TwoColumnCsv ==
    <<"b", "r", "a", "n", "d", "_", "n", "a", "m", "e", ",", "f", "o", "r", "m", "\r", "\n",
      "P", "a", ",", "\r", "\n", ",", "x", "\r", "\n">>

\* a bare carriage return inside a line: csv.Error
BrokenCsv ==
    <<"f", "o", "r", "m", "\r", "\n", "a", "\r", "b", "\r", "\n">>

GivenFiles ==
    { [filename |-> CsvName, contents |-> TwoColumnCsv, rows |-> 2],
      [filename |-> CsvName, contents |-> BrokenCsv, rows |-> 1],
      [filename |-> JsonName, rows |-> 2,
       contents |-> [malformed |-> FALSE,
                     list |-> << ("generic_name" :> Some(Pa)),
                                 ("brand_name" :> Some(<<"b">>)) @@ ("id" :> Some(2)) >>]],
      [filename |-> JsonName, rows |-> 2,
       contents |-> [malformed |-> FALSE,
                     list |-> << ("form" :> Some(<<"x">>)), ("dose" :> Some(<<"1">>)) >>]],
      [filename |-> JsonName, rows |-> 1,
       contents |-> [malformed |-> TRUE, list |-> <<>>]],
      [filename |-> <<"d", ".", "t", "x", "t">>, contents |-> TwoColumnCsv, rows |-> 2],
      [filename |-> <<"d", ".", "C", "S", "V">>, contents |-> TwoColumnCsv, rows |-> 2] }

\* the file a client saved from the latest export response
ExportedFiles ==
    IF resp.op = "export"
    THEN {[filename |-> CsvName, contents |-> resp.body,
           rows |-> Cardinality(DOMAIN resp.pre), exported |-> resp.pre]}
    ELSE {}

(***************************************************************************)
(* Claims about bulk import and export (checked under SpecImport).         *)
(***************************************************************************)
\* C6: bulk import is all-or-nothing.  When it does not answer 200 the store is
\* exactly as before the request; when it answers 200 every record stored before
\* is unchanged, one record per input row has been added, the returned count is
\* the number of input rows, and no row of the file was one the store rejects.
C6_BulkImportAllOrNothing ==
    resp.op = "bulk" =>
        IF resp.status = 200
        THEN /\ resp.imported = resp.file.rows
             /\ Cardinality(DOMAIN drugs) = Cardinality(DOMAIN resp.pre) + resp.file.rows
             /\ \A i \in DOMAIN resp.pre : i \in DOMAIN drugs /\ drugs[i] = resp.pre[i]
             /\ IsJsonName(resp.file.filename) =>
                    \A k \in 1 .. Len(resp.file.contents.list) :
                        /\ DOMAIN resp.file.contents.list[k] \subseteq Fields \cup {"id"}
                        /\ "id" \in DOMAIN resp.file.contents.list[k] =>
                               Val(resp.file.contents.list[k]["id"]) \notin DOMAIN resp.pre
        ELSE resp.status \in {400, 500} /\ drugs = resp.pre

\* a two-row JSON file whose first row the store accepts and whose second row
\* carries an id the first row has just taken has been refused
C6_Witness ==
    /\ resp.op = "bulk" /\ resp.status = 500
    /\ IsJsonName(resp.file.filename)
    /\ ~resp.file.contents.malformed
    /\ \A k \in 1 .. 2 : DOMAIN resp.file.contents.list[k] \subseteq Fields \cup {"id"}
    /\ DOMAIN resp.pre = {1}

\* C7 (as claimed): bulk import of a file whose name ends neither in .csv nor in
\* .json answers with the bad-request status 400 and inserts nothing.
C7_UnsupportedExtensionIsBadRequest ==
    (resp.op = "bulk" /\ ~IsCsvName(resp.file.filename) /\ ~IsJsonName(resp.file.filename))
        => (resp.status = 400 /\ drugs = resp.pre)

\* the ids the request added to the store
Added == DOMAIN drugs \ DOMAIN resp.pre

\* C10 (as claimed): importing the .csv file an export produced creates, for every
\* exported record, a new record equal to it on generic_name, brand_name,
\* alternative_names, strength and form.
C10_ExportImportRoundTrip ==
    (resp.op = "bulk" /\ "exported" \in DOMAIN resp.file) =>
        /\ resp.status = 200
        /\ Cardinality(Added) = Cardinality(DOMAIN resp.file.exported)
        /\ \A i \in DOMAIN resp.file.exported : \E j \in Added :
               \A f \in CsvImportColumns :
                   drugs[j].cols[f] = resp.file.exported[i].cols[f]

\* a field as it comes back from the round trip: an empty string comes back absent
EmptyAsAbsent(o) == IF o = Some(<<>>) THEN None ELSE o

\* C10 (amended): importing the .csv file an export produced succeeds and creates,
\* for every exported record and in the order of the export, a new record equal to
\* it on generic_name, brand_name, alternative_names, strength and form, except
\* that a field holding the empty string comes back absent (absent stays absent);
\* every other column of the new record is as for a record created without it.
C10_ExportImportRoundTripEmptyAsAbsent ==
    (resp.op = "bulk" /\ "exported" \in DOMAIN resp.file) =>
        LET old == InIdOrder(DOMAIN resp.file.exported)
            new == InIdOrder(Added)
        IN  /\ resp.status = 200
            /\ Len(new) = Len(old)
            /\ \A k \in 1 .. Len(old) :
                   /\ \A f \in CsvImportColumns :
                          drugs[new[k]].cols[f] =
                              EmptyAsAbsent(resp.file.exported[old[k]].cols[f])
                   /\ \A f \in Fields \ CsvImportColumns :
                          drugs[new[k]].cols[f] = UnsetReadsAs(f)

\* an export of two records, one with a cell the writer has to quote and a column
\* the import ignores, has been imported again
C10_Witness ==
    /\ resp.op = "bulk" /\ "exported" \in DOMAIN resp.file /\ resp.status = 200
    /\ Cardinality(DOMAIN resp.file.exported) = 2
    /\ \E i \in DOMAIN resp.file.exported :
           /\ resp.file.exported[i].cols["form"] = Some(<<"a", ",", "\"">>)
           /\ resp.file.exported[i].cols["category"] # None
           /\ resp.file.exported[i].cols["drug_type"] = Some(Otc)

(***************************************************************************)
(* Dates.  A date is its proleptic Gregorian ordinal (date.toordinal()),   *)
(* so that the difference of two dates is a number of days.                *)
(***************************************************************************)
IsLeap(y) == y % 4 = 0 /\ (y % 100 # 0 \/ y % 400 = 0)

DaysInMonth(y, m) ==
    IF m = 2 THEN (IF IsLeap(y) THEN 29 ELSE 28)
    ELSE IF m \in {4, 6, 9, 11} THEN 30 ELSE 31

RECURSIVE DaysBeforeMonth(_, _)
DaysBeforeMonth(y, m) ==
    IF m = 1 THEN 0 ELSE DaysBeforeMonth(y, m - 1) + DaysInMonth(y, m - 1)

DaysBeforeYear(y) ==
    365 * (y - 1) + ((y - 1) \div 4) - ((y - 1) \div 100) + ((y - 1) \div 400)

Ordinal(y, m, d) == DaysBeforeYear(y) + DaysBeforeMonth(y, m) + d

IsDigit(c) == c \in {"0", "1", "2", "3", "4", "5", "6", "7", "8", "9"}

DigitVal(c) == CHOOSE n \in 0 .. 9 : Digit(n) = c

RECURSIVE Number(_)
Number(str) ==
    IF str = <<>> THEN 0 ELSE 10 * Number(SubSeq(str, 1, Len(str) - 1)) + DigitVal(str[Len(str)])

\* datetime.strptime(str, "%Y-%m-%d").date(): %Y is four digits, %m is 1[0-2],
\* 0[1-9] or [1-9], %d is 3[01], [12]\d, 0[1-9], [1-9] or a space and [1-9]; the
\* whole string has to match and the date has to exist.  None is the ValueError.
ParseDate(str) ==
    LET dashes == {i \in 1 .. Len(str) : str[i] = "-"}
        d1 == CHOOSE i \in dashes : \A j \in dashes : i <= j
        d2 == CHOOSE i \in dashes : \A j \in dashes : j <= i
        ys == SubSeq(str, 1, d1 - 1)
        ms == SubSeq(str, d1 + 1, d2 - 1)
        ds0 == SubSeq(str, d2 + 1, Len(str))
        ds == IF Len(ds0) = 2 /\ ds0[1] = " " THEN <<ds0[2]>> ELSE ds0
        AllDigits(x) == \A i \in 1 .. Len(x) : IsDigit(x[i])
        y == Number(ys)
        m == Number(ms)
        d == Number(ds)
    IN  IF Cardinality(dashes) # 2 THEN None
        ELSE IF ~(Len(ys) = 4 /\ AllDigits(ys)) THEN None
        ELSE IF ~(Len(ms) \in {1, 2} /\ AllDigits(ms)) THEN None
        ELSE IF ~(Len(ds) \in {1, 2} /\ AllDigits(ds)) THEN None
        ELSE IF Len(ds0) = 2 /\ ds0[1] = " " /\ ds0[2] = "0" THEN None
        ELSE IF m < 1 \/ m > 12 \/ d < 1 \/ d > 31 THEN None
        ELSE IF y < 1 \/ d > DaysInMonth(y, m) THEN None
        ELSE Some(Ordinal(y, m, d))

(***************************************************************************)
(* Local prices: the expiry status and the near-expiry deals.              *)
(***************************************************************************)
\* the expiry date stored as absent whatever the string
StoredExpiryNeverParsed(expiry_date) == None

\* crud.add_local_price_with_expiry, the parse: an absent or empty string and a
\* string strptime rejects are both stored as no expiry date
StoredExpiry(expiry_date) ==
    IF expiry_date = None \/ Val(expiry_date) = <<>> THEN None
    ELSE ParseDate(Val(expiry_date))

\* crud.add_local_price_with_expiry: the table after add + commit
add_local_price_with_expiry(table, medicine_name, pharmacy_name, price, expiry_date, batch_number, t) ==
    (NextRowId(table) :>
        [medicine_name |-> medicine_name, pharmacy_name |-> pharmacy_name,
         price |-> price, expiry_date |-> StoredExpiry(expiry_date),
         batch_number |-> batch_number, updated_at |-> t]) @@ table

\* the day counts get_expiry_status compares days_remaining with
ClearanceDays == 60

NearExpiryDays == 90

\* get_expiry_status with <= for < at the clearance threshold
get_expiry_statusInclusive(expiry_date, day) ==
    IF expiry_date = None THEN [status |-> None, days_remaining |-> None]
    ELSE LET days_remaining == Val(expiry_date) - day
         IN  IF days_remaining < 0
             THEN [status |-> Some("expired"), days_remaining |-> Some(days_remaining)]
             ELSE IF days_remaining <= ClearanceDays
             THEN [status |-> Some("clearance"), days_remaining |-> Some(days_remaining)]
             ELSE IF days_remaining < NearExpiryDays
             THEN [status |-> Some("near_expiry"), days_remaining |-> Some(days_remaining)]
             ELSE [status |-> Some("valid"), days_remaining |-> Some(days_remaining)]

\* crud.get_expiry_status on a date (or None), on the day `day`
get_expiry_status(expiry_date, day) ==
    IF expiry_date = None THEN [status |-> None, days_remaining |-> None]
    ELSE LET days_remaining == Val(expiry_date) - day
         IN  IF days_remaining < 0
             THEN [status |-> Some("expired"), days_remaining |-> Some(days_remaining)]
             ELSE IF days_remaining < ClearanceDays
             THEN [status |-> Some("clearance"), days_remaining |-> Some(days_remaining)]
             ELSE IF days_remaining < NearExpiryDays
             THEN [status |-> Some("near_expiry"), days_remaining |-> Some(days_remaining)]
             ELSE [status |-> Some("valid"), days_remaining |-> Some(days_remaining)]

\* timedelta(days=90) in get_near_expiry_deals
DealWindowDays == 90

\* the filter without its lower bound: expired rows pass
DealFilterNoLowerBound(row, day) ==
    /\ row.expiry_date # None
    /\ Val(row.expiry_date) <= day + DealWindowDays

\* the filter of crud.get_near_expiry_deals on one row
DealFilter(row, day) ==
    /\ row.expiry_date # None
    /\ Val(row.expiry_date) >= day
    /\ Val(row.expiry_date) <= day + DealWindowDays

\* order_by(LocalPrice.expiry_date.asc()): the ids of S by expiry date, rows of
\* one date in table order
RECURSIVE ByExpiryDate(_, _)
ByExpiryDate(table, S) ==
    IF S = {} THEN <<>>
    ELSE LET m == CHOOSE x \in S : \A y \in S :
                      \/ Val(table[x].expiry_date) < Val(table[y].expiry_date)
                      \/ (Val(table[x].expiry_date) = Val(table[y].expiry_date) /\ x <= y)
         IN  <<m>> \o ByExpiryDate(table, S \ {m})

\* crud.get_near_expiry_deals: the ids of the rows returned, in order
get_near_expiry_deals(table, limit, day) ==
    Limit(ByExpiryDate(table, {i \in DOMAIN table : DealFilter(table[i], day)}), limit)

\* add_local_price_with_expiry(...)
AddLocalPrice(medicine_name, pharmacy_name, price, expiry_date, batch_number) ==
    /\ Cardinality(DOMAIN prices) < MaxPrices
    /\ prices' = add_local_price_with_expiry(prices, medicine_name, pharmacy_name,
                                             price, expiry_date, batch_number, now)
    /\ resp' = [op |-> "add_price", status |-> 200, id |-> NextRowId(prices),
                expiry_date |-> expiry_date, at |-> now, pre |-> prices,
                req |-> [medicine_name |-> medicine_name, pharmacy_name |-> pharmacy_name,
                         price |-> price, batch_number |-> batch_number]]
    /\ UNCHANGED <<session, active_sessions, drugs, now, today>>

\* get_expiry_status(price.expiry_date) for a stored price observation
ExpiryStatus(id) ==
    /\ id \in DOMAIN prices
    /\ resp' = [op |-> "expiry_status", status |-> 200, id |-> id, day |-> today,
                expiry_date |-> prices[id].expiry_date,
                body |-> get_expiry_status(prices[id].expiry_date, today)]
    /\ UNCHANGED <<session, active_sessions, drugs, prices, now, today>>

\* get_near_expiry_deals(session, limit)
NearExpiryDeals(limit) ==
    /\ resp' = [op |-> "deals", status |-> 200, limit |-> limit, day |-> today,
                pre |-> prices, body |-> get_near_expiry_deals(prices, limit, today)]
    /\ UNCHANGED <<session, active_sessions, drugs, prices, now, today>>

\* date.today() advances
NextDay ==
    /\ today < Ordinal(2025, 1, 1) + MaxDay
    /\ today' = today + 1
    /\ UNCHANGED <<session, active_sessions, drugs, prices, now, resp>>

\* expiry dates around the day the model starts on, 2025-01-01: the day before,
\* the day itself, 59 and 60, 89, 90 and 91 days later; a date that does not
\* exist; no date
ExpiryInputs ==
    { None, Some(<<"2", "0", "2", "5", "-", "0", "2", "-", "3", "0">>) }
    \cup { Some(str) : str \in
    { <<"2", "0", "2", "4", "-", "1", "2", "-", "3", "1">>,
      <<"2", "0", "2", "5", "-", "0", "1", "-", "0", "1">>,
      <<"2", "0", "2", "5", "-", "0", "3", "-", "0", "1">>,
      <<"2", "0", "2", "5", "-", "0", "3", "-", "0", "2">>,
      <<"2", "0", "2", "5", "-", "0", "3", "-", "3", "1">>,
      <<"2", "0", "2", "5", "-", "0", "4", "-", "0", "1">>,
      <<"2", "0", "2", "5", "-", "0", "4", "-", "0", "2">> } }

(***************************************************************************)
(* Claims about the expiry status and the near-expiry deals (checked       *)
(* under SpecExpiry).                                                      *)
(***************************************************************************)
\* C8: the expiry status of a price observation is a function of
\* d = expiry_date - today in days: expired when d < 0, clearance when
\* 0 <= d < 60, near_expiry when 60 <= d < 90, valid when d >= 90, each with d as
\* the days remaining; no status and no days remaining when no expiry date is set.
C8_ExpiryStatusByDaysRemaining ==
    resp.op = "expiry_status" =>
        IF resp.expiry_date = None
        THEN resp.body.status = None /\ resp.body.days_remaining = None
        ELSE LET d == Val(resp.expiry_date) - resp.day
             IN  /\ resp.body.days_remaining = Some(d)
                 /\ resp.body.status # None
                 /\ Val(resp.body.status) =
                        (IF d < 0 THEN "expired"
                         ELSE IF d < 60 THEN "clearance"
                         ELSE IF d < 90 THEN "near_expiry"
                         ELSE "valid")

\* the status of an observation that expires in exactly 60 days has been computed
C8_Witness ==
    /\ resp.op = "expiry_status"
    /\ resp.expiry_date # None
    /\ Val(resp.expiry_date) - resp.day = 60
    /\ resp.body.status = Some("near_expiry")

\* the observations whose expiry date lies in [day, day + 90]
InWindow(table, day) ==
    {i \in DOMAIN table :
        /\ table[i].expiry_date # None
        /\ day <= Val(table[i].expiry_date)
        /\ Val(table[i].expiry_date) <= day + 90}

\* C9: getNearExpiryDeals(limit) returns at most limit observations, no one twice,
\* each with an expiry date in [today, today + 90 days], in ascending order of
\* expiry date; expired observations and observations without expiry date are
\* never returned; when at most limit observations are in the window, all of them
\* are returned.
C9_NearExpiryDealsWindowOrderLimit ==
    resp.op = "deals" =>
        /\ Len(resp.body) <= resp.limit
        /\ \A k \in 1 .. Len(resp.body) : resp.body[k] \in InWindow(resp.pre, resp.day)
        /\ \A j, k \in 1 .. Len(resp.body) : j < k =>
               /\ resp.body[j] # resp.body[k]
               /\ Val(resp.pre[resp.body[j]].expiry_date)
                      <= Val(resp.pre[resp.body[k]].expiry_date)
        /\ Cardinality(InWindow(resp.pre, resp.day)) <= resp.limit =>
               InWindow(resp.pre, resp.day) \subseteq Range(resp.body)

\* with an observation that expired the day before, one stored first that expires
\* in 90 days and one stored later that expires sooner, the two live ones have
\* been returned, the sooner first
C9_Witness ==
    /\ resp.op = "deals"
    /\ Len(resp.body) = 2
    /\ resp.body[1] > resp.body[2]
    /\ Val(resp.pre[resp.body[2]].expiry_date) = resp.day + 90
    /\ \E i \in DOMAIN resp.pre :
           resp.pre[i].expiry_date # None /\ Val(resp.pre[i].expiry_date) = resp.day - 1

(***************************************************************************)
(* Name resolution.                                                        *)
(***************************************************************************)
\* crud.search_drug_dictionary(session, medicine_name, limit=5)
ResolveLimit == 5

\* Python's `a or b` on two Optional[str]: a when it is truthy, else b
Or(a, b) == IF a # None /\ Val(a) # <<>> THEN a ELSE b

\* the dict resolve_generic_name appends for one drug
ResolveMatch(id, cols) ==
    [id |-> id, generic_name |-> cols["generic_name"],
     brand_name |-> cols["brand_name"],
     alternative_names |-> cols["alternative_names"],
     strength |-> cols["strength"], form |-> cols["form"],
     resolved_generic_name |-> Or(cols["generic_name"], cols["brand_name"])]

\* the dict resolve_generic_name returns
resolve_generic_name(table, medicine_name) ==
    LET drug_entries == search_drug_dictionary(table, medicine_name, ResolveLimit)
        matches == [k \in 1 .. Len(drug_entries) |->
                       ResolveMatch(drug_entries[k], table[drug_entries[k]].cols)]
    IN  IF drug_entries = <<>>
        THEN [found |-> FALSE, original_name |-> medicine_name]
        ELSE [found |-> TRUE, original_name |-> medicine_name, matches |-> matches,
              best_match |-> matches[1].resolved_generic_name]

\* GET /api/drugs/resolve/{medicine_name}
ResolveGenericName(medicine_name) ==
    /\ resp' = [op |-> "resolve", status |-> 200, name |-> medicine_name,
                at |-> now, pre |-> drugs,
                body |-> resolve_generic_name(drugs, medicine_name)]
    /\ UNCHANGED <<session, active_sessions, drugs, prices, now, today>>

\* a record with a generic name, one with a brand name only, one whose generic
\* name is the empty string and one that has alternative names only
ResolveInputs ==
    { ("generic_name" :> Some(Pa)),
      ("brand_name" :> Some(<<"P", "a", "b">>)),
      ("generic_name" :> Some(<<>>)) @@ ("brand_name" :> Some(<<"a", "P">>)),
      ("alternative_names" :> Some(<<"b", ",", "a">>)) }

\* a .json file of six records that all hold the letter a in a name
SixNamesFile ==
    [filename |-> JsonName, rows |-> 6,
     contents |-> [malformed |-> FALSE,
                   list |-> << ("generic_name" :> Some(Pa)),
                               ("brand_name" :> Some(<<"a", "b">>)),
                               ("generic_name" :> Some(<<"a">>)),
                               ("generic_name" :> Some(<<"P", "a", "b">>)),
                               ("brand_name" :> Some(<<"a">>)),
                               ("generic_name" :> Some(<<"b", "a">>)) >>]]

\* the names asked for: in some records, in either case, in none
ResolveNames == { <<"a">>, <<"b">>, <<"P", "A">>, <<"z">> }

\* C11 (as claimed): resolveGenericName(name) returns found=false with the original
\* name exactly when searchDrugs(name, 5) is empty; otherwise it returns at most 5
\* matches in search order, each match's resolvedGenericName is the record's
\* generic name if present else its brand name, bestMatch is the first match's
\* resolvedGenericName, and bestMatch is a name of a record in the store.
C11_ResolveReturnsStoredName ==
    resp.op = "resolve" =>
        LET hits == search_drug_dictionary(resp.pre, resp.name, 5)
            body == resp.body
        IN  /\ body.original_name = resp.name
            /\ body.found = (hits # <<>>)
            /\ body.found =>
                   /\ Len(body.matches) <= 5
                   /\ [k \in 1 .. Len(body.matches) |-> body.matches[k].id] = hits
                   /\ \A k \in 1 .. Len(body.matches) :
                          body.matches[k].resolved_generic_name =
                              (IF resp.pre[hits[k]].cols["generic_name"] # None
                               THEN resp.pre[hits[k]].cols["generic_name"]
                               ELSE resp.pre[hits[k]].cols["brand_name"])
                   /\ body.best_match = body.matches[1].resolved_generic_name
                   /\ body.best_match # None
                   /\ \E i \in DOMAIN resp.pre, f \in NameFields :
                          resp.pre[i].cols[f] = body.best_match

(***************************************************************************)
(* Primary keys (checked under SpecIds).                                   *)
(***************************************************************************)
\* a record with a name and one that sets other columns only
IdInputs ==
    { ("generic_name" :> Some(Pa)),
      ("category" :> Some(<<"c">>)) @@ ("generic_name" :> None) }

\* a .json file whose one row brings its own id, one whose rows bring none, and
\* a .csv file
IdFiles ==
    { [filename |-> JsonName, rows |-> 1,
       contents |-> [malformed |-> FALSE,
                     list |-> << ("generic_name" :> Some(Pa)) @@ ("id" :> Some(3)) >>]],
      [filename |-> JsonName, rows |-> 2,
       contents |-> [malformed |-> FALSE,
                     list |-> << ("brand_name" :> Some(<<"b">>)) @@ ("id" :> None),
                                 ("form" :> Some(<<"x">>)) >>]],
      [filename |-> CsvName, contents |-> TwoColumnCsv, rows |-> 2] }

\* C12 (as claimed): after any sequence of createDrug, bulkImport (CSV or JSON),
\* updateDrug and deleteDrug, every id was assigned by the store and not taken
\* from caller input (a request that adds n records adds the n ids that follow
\* the highest id in the store), and no operation changes the id of an existing
\* record: a record keeps its id until it is deleted, and an update or a refused
\* request leaves the set of ids as it was.  The ids are the keys of the store
\* and so pairwise distinct; a request never overwrites a stored record.
C12_IdsStoreAssignedImmutable ==
    resp.op \in {"create", "bulk", "update", "delete"} =>
        LET n == IF resp.status # 200 THEN 0
                 ELSE IF resp.op = "create" THEN 1
                 ELSE IF resp.op = "bulk" THEN resp.imported
                 ELSE 0
            first == NextRowId(resp.pre)
        IN  /\ Added = first .. (first + n - 1)
            /\ resp.op \in {"create", "bulk", "update"} =>
                   /\ DOMAIN resp.pre \subseteq DOMAIN drugs
                   /\ \A i \in DOMAIN resp.pre :
                          drugs[i].created_at = resp.pre[i].created_at
            /\ resp.op = "delete" =>
                   /\ DOMAIN resp.pre \ DOMAIN drugs \subseteq {resp.id}
                   /\ \A i \in DOMAIN drugs : drugs[i] = resp.pre[i]

(***************************************************************************)
(* Local prices: the lookup by name.                                       *)
(***************************************************************************)
\* get_local_prices_by_name(session, medicine, limit=10)
PricesDefaultLimit == 10

\* order_by(LocalPrice.updated_at.desc()): the orders the query may yield the
\* rows of S in; SQL leaves the order of rows with equal updated_at open
RECURSIVE ByUpdatedAtDesc(_, _)
ByUpdatedAtDesc(table, S) ==
    IF S = {} THEN {<<>>}
    ELSE LET latest == {x \in S : \A y \in S : table[x].updated_at >= table[y].updated_at}
         IN  UNION {{<<m>> \o o : o \in ByUpdatedAtDesc(table, S \ {m})} : m \in latest}

\* crud.get_local_prices_by_name: the results the query may return, each the
\* ids of its rows in order
get_local_prices_by_name(table, medicine, limit) ==
    LET pattern == <<"%">> \o medicine \o <<"%">>
        hits == {i \in DOMAIN table : ilike(Some(table[i].medicine_name), pattern)}
    IN  {Limit(o, limit) : o \in ByUpdatedAtDesc(table, hits)}

\* get_local_prices_by_name(session, medicine, limit)
GetLocalPricesByName(medicine, limit) ==
    /\ \E body \in get_local_prices_by_name(prices, medicine, limit) :
           resp' = [op |-> "get_prices", status |-> 200, medicine |-> medicine,
                    limit |-> limit, at |-> now, pre |-> prices, body |-> body]
    /\ UNCHANGED <<session, active_sessions, drugs, prices, now, today>>

\* 2025-03-01; 2025-02-30, a day that does not exist; a string that is no date
PriceInputs ==
    { [medicine_name |-> Pa, batch_number |-> Some(<<"B", "1">>),
       expiry_date |-> Some(<<"2", "0", "2", "5", "-", "0", "3", "-", "0", "1">>)],
      [medicine_name |-> <<"a", "b">>, batch_number |-> None,
       expiry_date |-> Some(<<"2", "0", "2", "5", "-", "0", "2", "-", "3", "0">>)],
      [medicine_name |-> <<"a", "b">>, batch_number |-> Some(<<"B", "1">>),
       expiry_date |-> Some(<<"s", "o", "o", "n">>)] }

\* a substring of every name and a substring of one
PriceQueries == { <<"a">>, <<"P">> }

(***************************************************************************)
(* Claims about adding and looking up prices (checked under SpecPrices).   *)
(***************************************************************************)
\* the date a string of the form YYYY-MM-DD names, None when it has not that
\* form or names no day of the calendar
IsoDate(str) ==
    IF Len(str) = 10 /\ str[5] = "-" /\ str[8] = "-"
           /\ \A i \in {1, 2, 3, 4, 6, 7, 9, 10} : IsDigit(str[i])
    THEN LET y == Number(SubSeq(str, 1, 4))
             m == Number(SubSeq(str, 6, 7))
             d == Number(SubSeq(str, 9, 10))
         IN  IF y >= 1 /\ m \in 1 .. 12 /\ d >= 1 /\ d <= DaysInMonth(y, m)
             THEN Some(Ordinal(y, m, d)) ELSE None
    ELSE None

\* a string that cannot be read as a date: it names a day that does not exist, or
\* holds a character that is neither a digit nor a dash
Unparseable(str) ==
    \/ \E i \in 1 .. Len(str) : ~IsDigit(str[i]) /\ str[i] # "-"
    \/ Len(str) = 10 /\ str[5] = "-" /\ str[8] = "-" /\ IsoDate(str) = None

\* addLocalPrice answered, stored exactly one new observation with the given
\* medicine name, pharmacy name, price and batch number, and stored the expiry
\* date the claim gives for the string
AddedOnePrice ==
    resp.op = "add_price" =>
        /\ resp.status = 200
        /\ DOMAIN prices = DOMAIN resp.pre \cup {resp.id}
        /\ resp.id \notin DOMAIN resp.pre
        /\ \A i \in DOMAIN resp.pre : prices[i] = resp.pre[i]
        /\ prices[resp.id].medicine_name = resp.req.medicine_name
        /\ prices[resp.id].pharmacy_name = resp.req.pharmacy_name
        /\ prices[resp.id].price = resp.req.price
        /\ prices[resp.id].batch_number = resp.req.batch_number
        /\ (resp.expiry_date # None /\ IsoDate(Val(resp.expiry_date)) # None) =>
               prices[resp.id].expiry_date = IsoDate(Val(resp.expiry_date))
        /\ (resp.expiry_date = None \/ Val(resp.expiry_date) = <<>>
                \/ Unparseable(Val(resp.expiry_date))) =>
               prices[resp.id].expiry_date = None

\* the stored observations whose medicine name holds the substring asked for
HoldingSubstring ==
    {i \in DOMAIN resp.pre : Contains(resp.pre[i].medicine_name, resp.medicine)}

\* C13 (as claimed): addLocalPrice never fails because of its expiry-date argument:
\* a well-formed YYYY-MM-DD string is stored as that date, an unparseable string
\* is stored as absent, and in both cases exactly one observation with the given
\* medicine name, pharmacy name, price and batch number is inserted and is
\* returned by a subsequent getLocalPricesByName on a substring of its medicine
\* name.
C13_AddLocalPriceThenLookup ==
    /\ AddedOnePrice
    /\ resp.op = "get_prices" => HoldingSubstring \subseteq Range(resp.body)

\* C13 (amended): as claimed, but a later getLocalPricesByName(sub, limit) on a
\* substring sub of its medicine name returns the observation whenever fewer than
\* limit other observations carry an updated timestamp equal to or later than its
\* own; beyond that the cap of limit, most recently updated first, may leave it
\* out.
C13_AddLocalPriceThenLookupWithinLimit ==
    /\ AddedOnePrice
    /\ resp.op = "get_prices" =>
           \A i \in HoldingSubstring :
               Cardinality({j \in DOMAIN resp.pre \ {i} :
                               resp.pre[j].updated_at >= resp.pre[i].updated_at})
                       < resp.limit
                   => i \in Range(resp.body)

\* with three observations stored at three different times, one of the later two
\* with the date its string names and one without a date, a lookup capped at two
\* has returned the two latest and left the earliest out
C13_Witness ==
    /\ resp.op = "get_prices" /\ resp.limit = 2
    /\ HoldingSubstring = {1, 2, 3}
    /\ resp.body = <<3, 2>>
    /\ resp.pre[1].updated_at < resp.pre[2].updated_at
    /\ resp.pre[2].updated_at < resp.pre[3].updated_at
    /\ \E i \in {2, 3} : resp.pre[i].expiry_date = Some(Ordinal(2025, 3, 1))
    /\ \E i \in {2, 3} : resp.pre[i].expiry_date = None

(***************************************************************************)
(* The store session of a request, statement by statement.  Every handler  *)
(* of routers/drug_dictionary.py has the shape                             *)
(*     session = db.SessionLocal()                                         *)
(*     try: ...  [except Exception: session.rollback(); raise 500]         *)
(*     finally: session.close()                                            *)
(* session is the request being handled: the handler, its position, whether*)
(* its store session is open, and the table as its transaction sees it.    *)
(***************************************************************************)
\* the handlers with try/finally only
ReadHandlers ==
    {"get_drug_stats", "search_drugs", "resolve_generic_name", "export_drugs_csv",
     "list_drugs", "get_drug"}

\* the handlers with try/except/finally: those that write
WriteHandlers == {"create_drug", "update_drug", "delete_drug", "bulk_import_drugs"}

\* session = db.SessionLocal()
SessionLocal(handler, input) ==
    /\ session.pc = "idle"
    /\ handler \in {"create_drug", "bulk_import_drugs"} =>
           (Cardinality(Ids) < MaxDrugs /\ NextRowId(drugs) <= MaxId)
    /\ session' = [pc |-> "try", handler |-> handler, input |-> input, open |-> TRUE,
                   txn |-> drugs, raised |-> 0, partial |-> FALSE, rolled_back |-> FALSE]
    /\ UNCHANGED <<drugs, prices, now, today, resp, active_sessions>>

\* the try block of a handler on table: what it raises (0 when nothing), the table
\* as the transaction sees it when the block ends and the table committed.  fault
\* is a failure of the store itself (the database is locked, the disk is full)
\* at the statement that ends the block's work: the query or the commit.
TryOutcome(handler, input, table, fault, t) ==
    LET failed(pending) == [raised |-> 500, txn |-> pending, committed |-> table]
        refused(status) == [raised |-> status, txn |-> table, committed |-> table]
        done(new) == [raised |-> 0, txn |-> new, committed |-> new]
    IN  CASE handler = "get_drug" ->
                 IF fault THEN failed(table)
                 ELSE IF get_drug_by_id(table, input) = None THEN refused(404)
                 ELSE done(table)
          [] handler = "create_drug" ->
                 IF fault \/ FlushFails(Attrs(input))
                 THEN failed(create_drug(table, input, t))
                 ELSE done(create_drug(table, input, t))
          [] handler = "update_drug" ->
                 IF input.id \notin DOMAIN table
                 THEN IF fault THEN failed(table) ELSE refused(404)
                 ELSE IF fault \/ UpdateFlushFails(table, input.id, input.data)
                 THEN failed(update_drug(table, input.id, input.data, t))
                 ELSE done(update_drug(table, input.id, input.data, t))
          [] handler = "delete_drug" ->
                 IF input \notin DOMAIN table
                 THEN IF fault THEN failed(table) ELSE refused(404)
                 ELSE IF fault THEN failed(delete_drug(table, input))
                 ELSE done(delete_drug(table, input))
          [] handler = "bulk_import_drugs" ->
                 LET try == BulkImportTry(table, input, t)
                 IN  IF try.raised = 400 THEN refused(400)
                     ELSE IF try.raised # 0 \/ fault THEN failed(try.table)
                     ELSE done(try.table)
          [] OTHER -> IF fault THEN failed(table) ELSE done(table)

\* the try block
TryBlock(fault) ==
    /\ session.pc = "try"
    /\ LET out == TryOutcome(session.handler, session.input, drugs, fault, now)
       IN  /\ drugs' = out.committed
           /\ session' = [session EXCEPT
                  !.txn = out.txn, !.raised = out.raised,
                  !.partial = (out.txn # out.committed),
                  !.pc = IF out.raised # 0 /\ session.handler \in WriteHandlers
                         THEN "except" ELSE "finally"]
    /\ UNCHANGED <<prices, now, today, resp, active_sessions>>

\* except Exception as e: session.rollback(); raise HTTPException(500)
ExceptClause ==
    /\ session.pc = "except"
    /\ session' = [session EXCEPT
           !.txn = Rollback(drugs, session.txn), !.raised = 500,
           !.rolled_back = session.open, !.pc = "finally"]
    /\ UNCHANGED <<drugs, prices, now, today, resp, active_sessions>>

\* a handler whose finally clause does not close the session
SessionLeftOpen(s, committed) == s

\* session.close(): the connection goes back to the pool, and what the
\* transaction had pending is discarded
SessionClose(s, committed) == [s EXCEPT !.open = FALSE, !.txn = committed]

\* finally: session.close()
FinallyClause ==
    /\ session.pc = "finally"
    /\ session' = [SessionClose(session, drugs) EXCEPT !.pc = "done"]
    /\ UNCHANGED <<drugs, prices, now, today, resp, active_sessions>>

\* the handler has ended and control is back with the server, which answers
\* session.raised, or 200 when nothing was raised
Return ==
    /\ session.pc = "done"
    /\ session' = [pc |-> "idle"]
    /\ UNCHANGED <<drugs, prices, now, today, resp, active_sessions>>

\* two records the store takes and one whose last_updated_online it cannot bind
SessionInputs ==
    { ("generic_name" :> Some(Pa)),
      ("generic_name" :> Some(Pa)) @@ ("form" :> Some(<<"x">>)),
      ("category" :> Some(<<"c">>)) @@ ("last_updated_online" :> Some(<<"2">>)) }

\* a .json file whose second row brings an id its first row has just taken when
\* the store holds one record, and a file that is neither .csv nor .json
SessionFiles ==
    { [filename |-> JsonName, rows |-> 2,
       contents |-> [malformed |-> FALSE,
                     list |-> << ("generic_name" :> Some(Pa)),
                                 ("generic_name" :> Some(Pa)) @@ ("id" :> Some(2)) >>]],
      [filename |-> <<"d", ".", "t", "x", "t">>, contents |-> TwoColumnCsv, rows |-> 2] }

\* the requests: a handler and what it is called with
SessionRequests ==
    {[handler |-> h, input |-> None] : h \in ReadHandlers \ {"get_drug"}}
        \cup {[handler |-> "get_drug", input |-> i] : i \in IdRange}
        \cup {[handler |-> "create_drug", input |-> d] : d \in SessionInputs}
        \cup {[handler |-> "update_drug", input |-> [id |-> i, data |-> d]] :
                  i \in IdRange, d \in SessionInputs}
        \cup {[handler |-> "delete_drug", input |-> i] : i \in IdRange}
        \cup {[handler |-> "bulk_import_drugs", input |-> f] : f \in SessionFiles}

\* C14: every handler that acquires a store session releases it on every exit
\* path (normal return, not-found, bad request, storage exception): once the
\* handler has ended its session is closed and nothing its transaction wrote is
\* left uncommitted, a writing handler that ends with an error has rolled back
\* while the session was still open, and a handler that has acquired a session
\* does end.
C14_SessionReleasedOnEveryPath ==
    /\ [](session.pc = "done" =>
            /\ ~session.open
            /\ session.txn = drugs
            /\ (session.handler \in WriteHandlers /\ session.raised # 0) =>
                   session.rolled_back)
    /\ [](session.pc = "try" => <>(session.pc = "done"))

\* a bulk import whose second row was refused after its first row had been
\* written has ended: rolled back, closed, the store as committed
C14_Witness ==
    /\ session.pc = "done"
    /\ session.handler = "bulk_import_drugs"
    /\ session.partial
    /\ session.raised = 500
    /\ session.rolled_back
    /\ ~session.open

(***************************************************************************)
(* Admin sessions (auth.py, main.py).  active_sessions is the module-level *)
(* set of tokens; every request goes through AuthMiddleware.dispatch       *)
(* before it reaches its route.  A path, a header and a token are          *)
(* sequences of characters.                                                *)
(***************************************************************************)
DocsPrefix ==
    <<"/", "a", "p", "i", "/", "d", "o", "c", "s">>

RedocPrefix ==
    <<"/", "a", "p", "i", "/", "r", "e", "d", "o", "c">>

OpenapiPrefix ==
    <<"/", "a", "p", "i", "/", "o", "p", "e", "n", "a", "p", "i", ".", "j", "s", "o",
      "n">>

HealthPath ==
    <<"/", "h", "e", "a", "l", "t", "h">>

RootPath ==
    <<"/">>

StaticPrefix ==
    <<"/", "s", "t", "a", "t", "i", "c", "/">>

DrugsPrefix ==
    <<"/", "a", "p", "i", "/", "d", "r", "u", "g", "s", "/">>

SearchWord ==
    <<"s", "e", "a", "r", "c", "h">>

BulkImportWord ==
    <<"b", "u", "l", "k", "-", "i", "m", "p", "o", "r", "t">>

ExportWord ==
    <<"e", "x", "p", "o", "r", "t">>

BearerPrefix ==
    <<"B", "e", "a", "r", "e", "r", " ">>

StatsPath ==
    <<"/", "a", "p", "i", "/", "d", "r", "u", "g", "s", "/", "s", "t", "a", "t", "s">>

SearchPath ==
    <<"/", "a", "p", "i", "/", "d", "r", "u", "g", "s", "/", "s", "e", "a", "r", "c",
      "h">>

ResolvePrefix ==
    <<"/", "a", "p", "i", "/", "d", "r", "u", "g", "s", "/", "r", "e", "s", "o", "l",
      "v", "e", "/">>

ExportPath ==
    <<"/", "a", "p", "i", "/", "d", "r", "u", "g", "s", "/", "e", "x", "p", "o", "r",
      "t", "/", "c", "s", "v">>

BulkImportPath ==
    <<"/", "a", "p", "i", "/", "d", "r", "u", "g", "s", "/", "b", "u", "l", "k", "-",
      "i", "m", "p", "o", "r", "t">>

LoginPath ==
    <<"/", "a", "p", "i", "/", "l", "o", "g", "i", "n">>

LogoutPath ==
    <<"/", "a", "p", "i", "/", "l", "o", "g", "o", "u", "t">>

\* str.startswith(prefix)
StartsWith(str, prefix) ==
    Len(str) >= Len(prefix) /\ SubSeq(str, 1, Len(prefix)) = prefix

\* str.count(c) for a character c
Count(str, c) == Cardinality({i \in 1 .. Len(str) : str[i] = c})

\* str.split(c) for a character c
RECURSIVE Split(_, _)
Split(str, c) ==
    IF \A i \in 1 .. Len(str) : str[i] # c THEN <<str>>
    ELSE LET i == CHOOSE k \in 1 .. Len(str) :
                      str[k] = c /\ \A j \in 1 .. k - 1 : str[j] # c
         IN  <<SubSeq(str, 1, i - 1)>> \o Split(SubSeq(str, i + 1, Len(str)), c)

\* AuthMiddleware.dispatch, the first condition: the requests it lets through
\* without looking at them (`and` binds tighter than `or`)
SkipsAuthentication(method, path) ==
    \/ StartsWith(path, DocsPrefix)
    \/ StartsWith(path, RedocPrefix)
    \/ StartsWith(path, OpenapiPrefix)
    \/ path = HealthPath
    \/ path = RootPath
    \/ StartsWith(path, StaticPrefix)
    \/ /\ method = "GET"
       /\ \/ StartsWith(path, DrugsPrefix) /\ Contains(path, SearchWord)
          \/ path = DrugsPrefix
          \/ StartsWith(path, DrugsPrefix) /\ Count(path, "/") = 3

\* a check that takes the writes by method only
IsAdminEndpointByMethodOnly(method, path) == method \in {"PUT", "DELETE"}

\* AuthMiddleware.dispatch: is_admin_endpoint
IsAdminEndpoint(method, path) ==
    \/ method \in {"PUT", "DELETE"}
    \/ Contains(path, BulkImportWord)
    \/ Contains(path, ExportWord)

\* AuthMiddleware.dispatch, the check of the Authorization header against the
\* tokens in sessions
HasAdminSession(authorization, sessions) ==
    /\ authorization # None
    /\ StartsWith(Val(authorization), BearerPrefix)
    /\ Split(Val(authorization), " ")[2] \in sessions

\* AuthMiddleware.dispatch: the request reaches call_next
CallsNext(method, path, authorization, sessions) ==
    \/ SkipsAuthentication(method, path)
    \/ ~IsAdminEndpoint(method, path)
    \/ HasAdminSession(authorization, sessions)

\* the route of the router a request is matched to, in the order the routes are
\* declared, and what its handler is called with; "none" when no route of the
\* router takes the request or the path parameter is no integer
Route(method, path, body) ==
    LET rest == SubSeq(path, Len(DrugsPrefix) + 1, Len(path))
        to(handler, input) == [handler |-> handler, input |-> input]
    IN  IF ~StartsWith(path, DrugsPrefix) THEN to("none", None)
        ELSE IF method = "GET" /\ path = StatsPath THEN to("get_drug_stats", None)
        ELSE IF method = "GET" /\ path = SearchPath THEN to("search_drugs", None)
        ELSE IF method = "GET" /\ StartsWith(path, ResolvePrefix)
                /\ Len(path) > Len(ResolvePrefix)
                /\ Count(path, "/") = 4 THEN to("resolve_generic_name", None)
        ELSE IF method = "GET" /\ path = ExportPath THEN to("export_drugs_csv", None)
        ELSE IF method = "POST" /\ path = BulkImportPath THEN to("bulk_import_drugs", body)
        ELSE IF method = "GET" /\ path = DrugsPrefix THEN to("list_drugs", None)
        ELSE IF method = "POST" /\ path = DrugsPrefix THEN to("create_drug", body)
        ELSE IF rest # <<>> /\ \A i \in 1 .. Len(rest) : IsDigit(rest[i])
        THEN CASE method = "GET" -> to("get_drug", Number(rest))
               [] method = "PUT" -> to("update_drug", [id |-> Number(rest), data |-> body])
               [] method = "DELETE" -> to("delete_drug", Number(rest))
               [] OTHER -> to("none", None)
        ELSE to("none", None)

\* a request: through the middleware and, when that calls next, to its handler,
\* which works on the store as the handlers above do
HttpRequest(r) ==
    LET passed == CallsNext(r.method, r.path, r.authorization, active_sessions)
        route == Route(r.method, r.path, r.body)
        out == TryOutcome(route.handler, route.input, drugs, FALSE, now)
    IN  /\ (passed /\ route.handler \in {"create_drug", "bulk_import_drugs"}) =>
               (Cardinality(Ids) < MaxDrugs /\ NextRowId(drugs) <= MaxId)
        /\ IF passed /\ route.handler # "none"
           THEN /\ drugs' = out.committed
                /\ resp' = [op |-> "request", request |-> r, live |-> active_sessions,
                            pre |-> drugs, passed |-> TRUE, handler |-> route.handler,
                            status |-> IF out.raised = 0 THEN 200
                                       ELSE IF route.handler \in WriteHandlers THEN 500
                                       ELSE out.raised]
           ELSE /\ drugs' = drugs
                /\ resp' = [op |-> "request", request |-> r, live |-> active_sessions,
                            pre |-> drugs, passed |-> passed, handler |-> "none"]
        /\ UNCHANGED <<prices, now, today, session, active_sessions>>

\* auth.verify_admin
verify_admin(credentials) ==
    credentials.username = "admin" /\ credentials.password = "password123"

\* the values secrets.token_hex(16) may return
Tokens == { <<"1">>, <<"2">> }

\* POST /api/login
Login(credentials) ==
    /\ CallsNext("POST", LoginPath, None, active_sessions)
    /\ IF verify_admin(credentials)
       THEN \E token \in Tokens :
               /\ active_sessions' = active_sessions \cup {token}
               /\ resp' = [op |-> "login", status |-> 200, token |-> token,
                           live |-> active_sessions]
       ELSE /\ active_sessions' = active_sessions
            /\ resp' = [op |-> "login", status |-> 401, live |-> active_sessions]
    /\ UNCHANGED <<drugs, prices, now, today, session>>

\* POST /api/logout?token=...
Logout(token) ==
    /\ CallsNext("POST", LogoutPath, None, active_sessions)
    /\ active_sessions' = active_sessions \ {token}
    /\ resp' = [op |-> "logout", status |-> 200, token |-> token,
                live |-> active_sessions]
    /\ UNCHANGED <<drugs, prices, now, today, session>>

\* no header, the header of either token and a header of another scheme
AuthHeaders ==
    { None, Some(BearerPrefix \o <<"1">>), Some(BearerPrefix \o <<"2">>),
      Some(<<"B", "a", "s", "i", "c", " ", "1">>) }

\* a request to every kind of route, with every header
AuthRequests ==
    LET to(method, path, body) ==
            {[method |-> method, path |-> path, body |-> body, authorization |-> a] :
                a \in AuthHeaders}
    IN  to("GET", DrugsPrefix \o <<"1">>, None)
          \cup to("GET", StatsPath, None)
          \cup to("GET", SearchPath, None)
          \cup to("GET", ResolvePrefix \o <<"a">>, None)
          \cup to("GET", ExportPath, None)
          \cup to("POST", DrugsPrefix, ("generic_name" :> Some(Pa)))
          \cup to("PUT", DrugsPrefix \o <<"1">>, ("form" :> Some(<<"x">>)))
          \cup to("DELETE", DrugsPrefix \o <<"1">>, None)
          \cup to("POST", BulkImportPath,
                  [filename |-> JsonName, rows |-> 1,
                   contents |-> [malformed |-> FALSE,
                                 list |-> << ("generic_name" :> Some(Pa)) >>]])

\* the right credentials and wrong ones
Credentials ==
    { [username |-> "admin", password |-> "password123"],
      [username |-> "admin", password |-> "password"] }

(***************************************************************************)
(* Claims about the admin sessions (checked under SpecAuth).               *)
(***************************************************************************)
\* the request carries, as a Bearer token, one of the tokens in sessions
LiveBearer(r, sessions) ==
    /\ r.authorization # None
    /\ \E t \in sessions :
           \/ Val(r.authorization) = BearerPrefix \o t
           \/ StartsWith(Val(r.authorization), BearerPrefix \o t \o <<" ">>)

\* a PUT, DELETE, bulk-import or export request
AdminRequest(r) ==
    r.method \in {"PUT", "DELETE"} \/ r.path \in {BulkImportPath, ExportPath}

\* C15: in any sequence of login, logout and requests, a PUT, DELETE, bulk-import
\* or export request is passed on to its handler only if it carries a Bearer
\* token that is in the set of live tokens; a token enters that set only by a
\* successful login that issues it and leaves it only by its own logout, so
\* that after logout(token) such a request with that token is rejected and the
\* tokens of other sessions stay valid; a request changes no session.
C15_AdminRequestsNeedLiveToken ==
    [][ /\ (resp'.op = "request" /\ resp'.passed /\ AdminRequest(resp'.request)) =>
               LiveBearer(resp'.request, active_sessions)
        /\ resp'.op = "request" => active_sessions' = active_sessions
        /\ resp'.op = "logout" =>
               /\ active_sessions' = active_sessions \ {resp'.token}
               /\ resp'.token \notin active_sessions'
        /\ resp'.op = "login" =>
               active_sessions' = (IF resp'.status = 200
                                   THEN active_sessions \cup {resp'.token}
                                   ELSE active_sessions)
      ]_vars

\* a DELETE of a stored record that carries token 1 has been turned away while
\* token 2 is live, and the record is still there
C15_Witness ==
    /\ resp.op = "request" /\ ~resp.passed
    /\ resp.request.method = "DELETE"
    /\ resp.request.authorization = Some(BearerPrefix \o <<"1">>)
    /\ resp.live = {<<"2">>}
    /\ 1 \in DOMAIN drugs

\* C16 (as claimed): no request without a live admin session token changes the
\* drug-record store: every request that creates, updates, deletes or
\* bulk-imports drug records, POST create included, carries a live token.
C16_StoreChangesNeedLiveToken ==
    (resp.op = "request" /\ drugs # resp.pre) => LiveBearer(resp.request, resp.live)

(***************************************************************************)
(* The expiry status of the near-expiry deals (checked under SpecExpiry).  *)
(***************************************************************************)
\* C17 (as claimed): every observation returned by getNearExpiryDeals has, on the
\* day of the query, the computed expiry status clearance or near_expiry (never
\* valid, expired or absent), for every expiry date in the window, both boundary
\* days today and today + 90 included.
C17_DealsAreClearanceOrNearExpiry ==
    resp.op = "deals" =>
        \A k \in 1 .. Len(resp.body) :
            get_expiry_status(resp.pre[resp.body[k]].expiry_date, resp.day).status
                \in {Some("clearance"), Some("near_expiry")}

(***************************************************************************)
(* The cells of the export (checked under SpecImport).                     *)
(***************************************************************************)
\* a field as the claim has it rendered: empty when absent, else the value
RenderedCell(f, o) == IF o = None THEN <<>> ELSE ValueStr(f, Val(o))

\* the rows of the export as the claim has them, for the records ids of table
RECURSIVE RenderedRows(_, _)
RenderedRows(table, ids) ==
    IF ids = <<>> THEN <<>>
    ELSE WriteRow([k \in 1 .. Len(ExportColumns) |->
                      IF ExportColumns[k] = "id" THEN IntStr(Head(ids))
                      ELSE RenderedCell(ExportColumns[k],
                                        table[Head(ids)].cols[ExportColumns[k]])])
             \o RenderedRows(table, Tail(ids))

\* C18 (as claimed): exportCsv emits a header row of the 22 fixed columns followed
\* by one row per stored record, and a column of a row is the empty string only
\* when that record's field is absent; present values, prescription_required =
\* false and avg_mrp = 0 included, are rendered as themselves.
C18_ExportRendersPresentValues ==
    resp.op = "export" =>
        /\ Len(ExportColumns) = 22
        /\ resp.body =
               WriteRow([k \in 1 .. Len(ExportColumns) |-> ColumnChars(ExportColumns[k])])
                   \o RenderedRows(resp.pre, InIdOrder(DOMAIN resp.pre))

(***************************************************************************)
(* Specifications.  Each one starts from the empty store and serves the    *)
(* requests of one part of the service, with that part's inputs.           *)
(***************************************************************************)
Init ==
    /\ drugs = <<>>
    /\ prices = <<>>
    /\ now = 0
    /\ today = Ordinal(2025, 1, 1)
    /\ resp = [op |-> "none"]
    /\ session = [pc |-> "idle"]
    /\ active_sessions = {}

NextCrud ==
    \/ \E d \in CrudInputs : CreateDrug(d)
    \/ \E i \in IdRange : GetDrug(i)
    \/ \E i \in IdRange, d \in CrudInputs : UpdateDrug(i, d)
    \/ \E i \in IdRange : DeleteDrug(i)
    \/ Tick

SpecCrud == Init /\ [][NextCrud]_vars

NextSearch ==
    \/ \E d \in SearchInputs : CreateDrug(d)
    \/ \E i \in IdRange : DeleteDrug(i)
    \/ \E q \in Queries, n \in 0 .. MaxLimit : SearchDrugs(q, n)

SpecSearch == Init /\ [][NextSearch]_vars

NextImport ==
    \/ \E d \in ImportInputs : CreateDrug(d)
    \/ \E i \in IdRange : DeleteDrug(i)
    \/ ExportCsv
    \/ \E file \in GivenFiles : BulkImport(file)
    \/ \E file \in ExportedFiles : BulkImport(file)

SpecImport == Init /\ [][NextImport]_vars

NextExpiry ==
    \/ \E e \in ExpiryInputs :
           AddLocalPrice(Pa, <<"A", "B", "C">>, 25, e, Some(<<"B", "1">>))
    \/ \E i \in 1 .. MaxPrices : ExpiryStatus(i)
    \/ \E n \in 0 .. MaxLimit : NearExpiryDeals(n)
    \/ NextDay

SpecExpiry == Init /\ [][NextExpiry]_vars

NextResolve ==
    \/ \E d \in ResolveInputs : CreateDrug(d)
    \/ BulkImport(SixNamesFile)
    \/ \E name \in ResolveNames : ResolveGenericName(name)

SpecResolve == Init /\ [][NextResolve]_vars

NextIds ==
    \/ \E d \in IdInputs : CreateDrug(d)
    \/ \E file \in IdFiles : BulkImport(file)
    \/ \E i \in IdRange, d \in IdInputs : UpdateDrug(i, d)
    \/ \E i \in IdRange : DeleteDrug(i)

SpecIds == Init /\ [][NextIds]_vars

NextPrices ==
    \/ \E p \in PriceInputs :
           AddLocalPrice(p.medicine_name, <<"A", "B", "C">>, 25, p.expiry_date,
                         p.batch_number)
    \/ \E q \in PriceQueries, n \in (1 .. MaxLimit) \cup {PricesDefaultLimit} :
           GetLocalPricesByName(q, n)
    \/ Tick

SpecPrices == Init /\ [][NextPrices]_vars

NextSessions ==
    \/ \E r \in SessionRequests : SessionLocal(r.handler, r.input)
    \/ \E fault \in BOOLEAN : TryBlock(fault)
    \/ ExceptClause
    \/ FinallyClause
    \/ Return

\* a handler that has started runs on to its end
SpecSessions ==
    /\ Init
    /\ [][NextSessions]_vars
    /\ WF_vars(\E fault \in BOOLEAN : TryBlock(fault))
    /\ WF_vars(ExceptClause)
    /\ WF_vars(FinallyClause)
    /\ WF_vars(Return)

NextAuth ==
    \/ \E c \in Credentials : Login(c)
    \/ \E token \in Tokens : Logout(token)
    \/ \E r \in AuthRequests : HttpRequest(r)

SpecAuth == Init /\ [][NextAuth]_vars

====
